---- MODULE Spec2Model ----
(***************************************************************************)
(* State-machine model of the noexcept library: the code registry          *)
(* (NoModule.likey), the ErrorState entity (NoBaseException), the pending  *)
(* store (thread-local slot + shared RMBlock slot) and the call dispatcher *)
(* (call.py).  Exception objects live in a heap and are referred to by     *)
(* reference, as in Python; every thread runs one public operation at a    *)
(* time and is interleaved with the others wherever the operation reads or *)
(* writes state another thread can see.                                    *)
(***************************************************************************)
EXTENDS Integers, Sequences, FiniteSets, TLC

\* ------------------------------------------------------------------------
\* Bounds and input sets
\* ------------------------------------------------------------------------

\* Number of dispatcher calls (of any shape) made in a run of Spec.
MaxCalls == 2

\* Number of single-code, code+message and empty calls in a run of SpecAccum.
MaxAccum == 4

\* Number of calls the two threads make in total in a run of SpecThreads.
MaxThreadCalls == 2

\* Number of Builder method calls and code+failure calls in a run of
\* SpecBuild.
MaxBuildOps == 4

\* Number of dispatcher calls and ErrorState method calls in a run of
\* SpecInstance.
MaxInstOps == 4

\* Number of calls the two threads of SpecChains make together.
MaxChainCalls == 3

Threads == {"t1", "t2"}

\* The call chain that runs alone in Spec, SpecAccum and SpecShared.
Chain == {"t1"}

\* Codes that calls and registrations use; 0 is the code of the empty call.
Codes == {1, 2}
AllCodes == {0} \cup Codes

\* Python's None for optional strings, and the two kinds of string argument.
None == "<None>"

\* The complaint keyword, and the str argument of the code+message shape.
Complaints == {None, "extra"}
Messages == {"", "extra"}

\* References into the heap of exception objects; 0 is None.
NoRef == 0
Refs == 1 .. (3 * Cardinality(Threads) + 1)

\* Thread-local attribute 'pending' that was never assigned (hasattr is False).
Unset == -1

\* Failures raised by code outside the library: type name, str(), and the
\* innermost traceback location (0: no traceback, i.e. (None, None)).
ExtFailures ==
    { [type |-> "ValueError", msg |-> "bad", loc |-> 1],
      [type |-> "KeyError",   msg |-> "k",   loc |-> 0] }

\* Failures of SpecBuild: two of them of one type and message, raised at
\* different places.
BuildFailures ==
    ExtFailures \cup { [type |-> "ValueError", msg |-> "bad", loc |-> 2] }

\* The complaint argument of NoBuilder.withCode.
BuildComplaints == {None, "extra", "more"}

\* Registrations the threads may attempt: (code, defaultComplaint,
\* linkedCodes, soft).
Registrations ==
    { [code |-> 1, msg |-> "",      linked |-> <<>>,  soft |-> TRUE],
      [code |-> 2, msg |-> "boom",  linked |-> <<1>>, soft |-> FALSE],
      [code |-> 0, msg |-> "zero",  linked |-> <<2>>, soft |-> TRUE] }

\* Registrations of SpecAccum: soft codes, one of them with a linked code.
AccumRegistrations ==
    { [code |-> 1, msg |-> "",     linked |-> <<>>,  soft |-> TRUE],
      [code |-> 2, msg |-> "warn", linked |-> <<1>>, soft |-> TRUE] }

\* Registrations of SpecThreads: each thread has its own soft code.
ThreadRegistrations ==
    { [code |-> 1, msg |-> "",     linked |-> <<>>, soft |-> TRUE],
      [code |-> 2, msg |-> "warn", linked |-> <<>>, soft |-> TRUE] }

\* The codes a thread of SpecThreads calls.
CodesOf(t) == IF t = "t1" THEN {1} ELSE {2}

\* Registrations of SpecRegistry: competing registrations of each code.
RegistryRegistrations ==
    { [code |-> 1, msg |-> "",      linked |-> <<>>,  soft |-> TRUE],
      [code |-> 1, msg |-> "boom",  linked |-> <<2>>, soft |-> FALSE],
      [code |-> 2, msg |-> "warn",  linked |-> <<>>,  soft |-> FALSE],
      [code |-> 2, msg |-> "warn",  linked |-> <<1>>, soft |-> TRUE] }

\* Registrations of SpecTerminate: a soft code and a hard code with a
\* message of its own, neither with linked codes.
TerminateRegistrations ==
    { [code |-> 1, msg |-> "",     linked |-> <<>>, soft |-> TRUE],
      [code |-> 2, msg |-> "boom", linked |-> <<>>, soft |-> FALSE] }

\* Registrations of SpecInstance: code 1 soft, code 2 left unregistered.
InstanceRegistrations ==
    { [code |-> 1, msg |-> "", linked |-> <<>>, soft |-> TRUE] }

\* Argument lists of the code-list shape.
CodeLists == { <<2>>, <<1, 2, 1>> }

\* Keyword arguments given to the shapes that read neither of them.
Keywords ==
    { [complaint |-> None, soften |-> FALSE],
      [complaint |-> "extra", soften |-> TRUE] }

\* ------------------------------------------------------------------------
\* Python helpers
\* ------------------------------------------------------------------------

\* Truthiness of an Optional[str].
Truthy(s) == s /= None /\ s /= ""

\* `a or b` on optional strings.
OrElse(a, b) == IF Truthy(a) THEN a ELSE b

\* f"Error {code}"
ErrorMsg(code) == "Error " \o ToString(code)

\* f"Error{code}"
ErrorName(code) == "Error" \o ToString(code)

\* Insertion-ordered dict: a sequence of [k, v] records with distinct keys.
MHas(m, k) == \E i \in 1 .. Len(m) : m[i].k = k
MIdx(m, k) == CHOOSE i \in 1 .. Len(m) : m[i].k = k
MGet(m, k) == m[MIdx(m, k)].v
MGetOr(m, k, d) == IF MHas(m, k) THEN MGet(m, k) ELSE d
MSet(m, k, v) ==
    IF MHas(m, k) THEN [m EXCEPT ![MIdx(m, k)].v = v]
    ELSE Append(m, [k |-> k, v |-> v])
MKeys(m) == [i \in 1 .. Len(m) |-> m[i].k]
MKeySet(m) == { m[i].k : i \in 1 .. Len(m) }

RECURSIVE Flatten(_)
Flatten(m) == IF m = <<>> THEN <<>> ELSE m[1].v \o Flatten(Tail(m))

\* ------------------------------------------------------------------------
\* ErrorState (NoBaseException): values of heap objects
\* ------------------------------------------------------------------------

\* A heap cell that holds no object.  An optional dict attribute
\* (_nos_defaultdict, _linked_defaultdict) is <<>> while the attribute is
\* not set and <<dict>> once it is.
FreeObj ==
    [nos |-> <<>>, nosdd |-> <<>>, softCodes |-> <<>>,
     linked |-> <<>>, linkeddd |-> <<>>, args |-> <<>>]

\* NoBaseException._composeText: header of codes, then one line per message.
composeText(nos) == <<MKeys(nos)>> \o Flatten(nos)

\* NoBaseException.__init__
ExcInit(code, complaint, codes, linked, defaultComplaint, softCodes) ==
    LET nos1 == IF MHas(codes, code) THEN codes
                ELSE MSet(codes, code,
                          <<OrElse(defaultComplaint, ErrorMsg(code))>>)
        nos2 == IF Truthy(complaint)
                THEN MSet(nos1, code, Append(MGet(nos1, code), complaint))
                ELSE nos1
    IN  [nos |-> nos2, nosdd |-> <<>>, softCodes |-> softCodes,
         linked |-> linked, linkeddd |-> <<>>, args |-> composeText(nos2)]

\* NoBaseException.addMessage
addMessage(o, code, complaint) ==
    IF ~Truthy(complaint) THEN o
    ELSE LET dd0 == IF o.nosdd = <<>> THEN o.nos ELSE o.nosdd[1]
             dd1 == MSet(dd0, code, Append(MGetOr(dd0, code, <<>>), complaint))
         IN  [o EXCEPT !.nosdd = <<dd1>>, !.nos = dd1]

\* Mutant of addCode: a code already present gets its default message again.
addCodeAppendsDefault(o, code, defaultComplaint) ==
    [o EXCEPT !.nos = MSet(@, code,
        Append(MGetOr(@, code, <<>>), OrElse(defaultComplaint, ErrorMsg(code))))]

\* NoBaseException.addCode
addCode(o, code, defaultComplaint) ==
    IF MHas(o.nos, code) THEN o
    ELSE [o EXCEPT !.nos = MSet(@, code,
                                <<OrElse(defaultComplaint, ErrorMsg(code))>>)]

\* Mutant of _recordLinkedException: the key is the failure's type alone.
recordLinkedExceptionByType(o, f) ==
    LET key == <<f.type, "">>
        dd0 == IF o.linkeddd = <<>> THEN o.linked ELSE o.linkeddd[1]
        dd1 == MSet(dd0, key, MGetOr(dd0, key, {}) \cup {f.loc})
    IN  [o EXCEPT !.linkeddd = <<dd1>>, !.linked = dd1]

\* NoBaseException._recordLinkedException
recordLinkedException(o, f) ==
    LET key == <<f.type, f.msg>>
        dd0 == IF o.linkeddd = <<>> THEN o.linked ELSE o.linkeddd[1]
        dd1 == MSet(dd0, key, MGetOr(dd0, key, {}) \cup {f.loc})
    IN  [o EXCEPT !.linkeddd = <<dd1>>, !.linked = dd1]

\* str(exc): NoBaseException defines no __str__ (the one in exception.py is
\* a method of NoBuilder), so this is BaseException.__str__, the text that
\* __init__ handed to super().__init__.
str(o) == o.args

\* sorted(locations)
RECURSIVE sortedLocations(_)
sortedLocations(S) ==
    IF S = {} THEN <<>>
    ELSE LET m == CHOOSE x \in S : \A y \in S : x <= y
         IN  <<m>> \o sortedLocations(S \ {m})

\* One line of the linked: section that the __str__ of exception.py writes
\* for an entry of self.linked: type name, message, sorted locations.
linkedLine(entry) ==
    [type |-> entry.k[1], msg |-> entry.k[2], at |-> sortedLocations(entry.v)]

\* pending._softCodes[code] = softFlag
setSoft(o, code, flag) == [o EXCEPT !.softCodes = MSet(@, code, flag)]

\* NoBaseException.complaints / the flattening loop of NoModule.complaints
complaintsOf(o) == Flatten(o.nos)

\* ------------------------------------------------------------------------
\* Builder (NoBuilder): values of a builder object
\* ------------------------------------------------------------------------

\* NoBuilder.__init__
NoBuilderInit == [codes |-> <<>>, linked |-> <<>>, soft_codes |-> <<>>]

\* NoBuilder.withCode
withCode(b, code, complaint) ==
    LET c1 == IF MHas(b.codes, code) THEN b.codes
              ELSE MSet(b.codes, code, <<>>)
        c2 == IF Truthy(complaint)
              THEN MSet(c1, code, Append(MGet(c1, code), complaint))
              ELSE c1
    IN  [b EXCEPT !.codes = c2]

\* NoBuilder.withLinked
withLinked(b, exception) == [b EXCEPT !.linked = Append(@, exception)]

\* NoBuilder.asSoft
asSoft(b, code) == [b EXCEPT !.soft_codes = MSet(@, code, TRUE)]

\* `for linked_exc in self._linked: exc._recordLinkedException(linked_exc)`
RECURSIVE recordAll(_, _)
recordAll(o, failures) ==
    IF failures = <<>> THEN o
    ELSE recordAll(recordLinkedException(o, failures[1]), Tail(failures))

\* Mutant of build: the soft-override map is not handed over.
buildWithoutSoftCodes(b) ==
    LET primary_code == b.codes[1].k
        primary_complaints == b.codes[1].v
        primary_complaint ==
            IF primary_complaints /= <<>> THEN primary_complaints[1] ELSE None
    IN  recordAll(ExcInit(primary_code, primary_complaint, b.codes, <<>>,
                          None, <<>>),
                  b.linked)

\* NoBuilder.build for a builder with at least one code.  The dict handed
\* to __init__ is a shallow copy, so `self.nos[code].append(complaint)` in
\* __init__ appends to the very list withCode filled.
build(b) ==
    LET primary_code == b.codes[1].k
        primary_complaints == b.codes[1].v
        primary_complaint ==
            IF primary_complaints /= <<>> THEN primary_complaints[1] ELSE None
    IN  recordAll(ExcInit(primary_code, primary_complaint, b.codes, <<>>,
                          None, b.soft_codes),
                  b.linked)

\* ------------------------------------------------------------------------
\* State
\* ------------------------------------------------------------------------

VARIABLES
    registry,       \* NoModule._registry: code -> (name, message, linked, soft)
    lock,           \* NoModule._lock: its holder, or "" when free
    shared,         \* NoModule.pending.value: the shared pending slot
    hideTraceback,  \* NoModule.hideTraceback
    tlPending,      \* NoModule._thread_local.pending, per thread
    heap,           \* the exception objects, by reference
    held,           \* per thread: the domain error its except block handles
    pc,             \* per thread: position in the operation it runs
    frame,          \* per thread: arguments and locals of its operation
    last,           \* per thread: how its last operation ended
    calls,          \* dispatcher calls the run may still make
    streak          \* per thread, history: [code, n] when its last n calls
                    \* were no(code) without complaint, the first of them
                    \* made with code soft and no state pending; else n = 0

vars == <<registry, lock, shared, hideTraceback, tlPending, heap, held,
          pc, frame, last, calls, streak>>

NoFailure == <<>>

NoStreak == [code |-> 0, n |-> 0]

\* The locals of an operation; also the frame of a thread that ran none yet.
IdleFrame ==
    [op |-> "none", isModule |-> TRUE, code |-> 0, codes |-> <<>>,
     complaint |-> None, soften |-> FALSE, exception |-> NoFailure,
     softFlag |-> FALSE, defaultMsg |-> None, entry |-> <<>>,
     exc |-> NoRef, mkCode |-> 0, extras |-> <<>>, extraMsg |-> None,
     made |-> <<>>, prePending |-> NoRef, builder |-> NoBuilderInit,
     caught |-> NoRef]

\* kind: "none", "returned", "raised" (a domain error, ref), "group" (an
\* ExceptionGroup, its members by value), "TypeError", "ValueError",
\* "AttributeError", "exit" (raze: printed ref, SystemExit(1)).
NoOutcome == [kind |-> "none", ref |-> NoRef, group |-> <<>>]
Outcome(kind, ref) == [kind |-> kind, ref |-> ref, group |-> <<>>]

\* NoModule.__init__ (module.py, `no = NoModule()`)
InitWith(budget) ==
    /\ registry = [c \in AllCodes |-> <<>>]
    /\ lock = ""
    /\ shared = NoRef
    /\ hideTraceback = FALSE
    /\ tlPending = [t \in Threads |-> Unset]
    /\ heap = [r \in Refs |-> FreeObj]
    /\ held = [t \in Threads |-> NoRef]
    /\ pc = [t \in Threads |-> "idle"]
    /\ frame = [t \in Threads |-> IdleFrame]
    /\ last = [t \in Threads |-> NoOutcome]
    /\ calls = budget
    /\ streak = [t \in Threads |-> NoStreak]

Init == InitWith(MaxCalls)
InitAccum == InitWith(MaxAccum)
InitThreads == InitWith(MaxThreadCalls)
InitBuild == InitWith(MaxBuildOps)
InitInstance == InitWith(MaxInstOps)
InitChains == InitWith(MaxChainCalls)

\* References a thread or a slot still holds; every other cell is garbage.
Live ==
    ({shared} \cup { tlPending[t] : t \in Threads }
              \cup { held[t] : t \in Threads }
              \cup { frame[t].exc : t \in Threads }
              \cup { frame[t].caught : t \in Threads }
              \cup { last[t].ref : t \in Threads }) \cap Refs

\* The heap h with its garbage cells freed.
Collect(h, live) == [r \in Refs |-> IF r \in live THEN h[r] ELSE FreeObj]

\* The reference a newly constructed object gets.
NewRef(h) == CHOOSE r \in Refs : h[r] = FreeObj /\ \A q \in Refs : q < r => h[q] /= FreeObj

\* self._registry.get(code, default)
RegistryGet(code, default) ==
    IF registry[code] /= <<>> THEN registry[code] ELSE default

\* getattr(no._thread_local, 'pending', None)
ThreadPending(t) == IF tlPending[t] = Unset THEN NoRef ELSE tlPending[t]

\* Mutant of _getPending: the shared slot is looked at first.
getPendingSharedFirst(t) ==
    IF shared /= NoRef THEN shared ELSE ThreadPending(t)

\* call.py _getPending
getPending(t) ==
    IF ThreadPending(t) /= NoRef THEN ThreadPending(t) ELSE shared

\* Mutant of _getRegistryEntry: a code without an entry counts as soft.
getRegistryEntryDefaultSoft(code) ==
    LET e == RegistryGet(code, <<None, ErrorMsg(code), <<>>, TRUE>>)
    IN  <<e[4], e[2]>>

\* call.py _getRegistryEntry, module mode: (softFlag, defaultMsg)
getRegistryEntry(code) ==
    LET e == RegistryGet(code, <<None, ErrorMsg(code), <<>>, FALSE>>)
    IN  <<e[4], e[2]>>

\* ------------------------------------------------------------------------
\* Inspection properties (read-only)
\* ------------------------------------------------------------------------

\* NoModule.bueno
bueno(t) == ThreadPending(t) /= NoRef \/ shared /= NoRef

\* The `stash` of NoModule.nos and NoModule.complaints: pending state, else
\* the NoBaseException of sys.exc_info(), else None.
activeStash(t) ==
    IF getPending(t) /= NoRef THEN getPending(t) ELSE held[t]

\* NoModule.nos
nos(t) == IF activeStash(t) = NoRef THEN <<>> ELSE heap[activeStash(t)].nos

\* NoModule.complaints
complaints(t) ==
    IF activeStash(t) = NoRef THEN <<>> ELSE complaintsOf(heap[activeStash(t)])

\* ------------------------------------------------------------------------
\* Registry: NoModule.likey
\* ------------------------------------------------------------------------

\* The tuple likey prepares outside the lock:
\* (name, defaultComplaint or f"Error {code}", linkedCodes or [], soft)
registry_entry(r) ==
    <<ErrorName(r.code), OrElse(r.msg, ErrorMsg(r.code)), r.linked, r.soft>>

\* likey up to `with self._lock:`: the entry is prepared, the lock acquired.
LikeyAcquire(t, r) ==
    /\ pc[t] = "idle"
    /\ lock = ""
    /\ lock' = t
    /\ pc' = [pc EXCEPT ![t] = "likey_check"]
    /\ frame' = [frame EXCEPT ![t] =
                    [IdleFrame EXCEPT
                        !.op = "likey", !.code = r.code,
                        !.entry = registry_entry(r)]]
    /\ last' = [last EXCEPT ![t] = NoOutcome]
    /\ UNCHANGED <<streak, registry, shared, hideTraceback, tlPending, held,
                   calls>>
    /\ heap' = Collect(heap, Live')

\* Mutant of the registration check: the entry is written in any case.
LikeyCheckOverwrites(t) ==
    /\ pc[t] = "likey_check"
    /\ pc' = [pc EXCEPT ![t] = "likey_write"]
    /\ UNCHANGED <<streak, registry, lock, shared, hideTraceback, tlPending,
                   heap, held, frame, last, calls>>

\* `if code in self._registry: return` (leaving the with block frees the lock)
LikeyCheck(t) ==
    /\ pc[t] = "likey_check"
    /\ IF registry[frame[t].code] /= <<>>
       THEN /\ lock' = ""
            /\ pc' = [pc EXCEPT ![t] = "idle"]
            /\ last' = [last EXCEPT ![t] = Outcome("returned", NoRef)]
       ELSE /\ pc' = [pc EXCEPT ![t] = "likey_write"]
            /\ UNCHANGED <<lock, last>>
    /\ UNCHANGED <<streak, registry, shared, hideTraceback, tlPending, heap, held,
                   frame, calls>>

\* `self._registry[code] = registry_entry`, end of the with block
LikeyWrite(t) ==
    /\ pc[t] = "likey_write"
    /\ registry' = [registry EXCEPT ![frame[t].code] = frame[t].entry]
    /\ lock' = ""
    /\ pc' = [pc EXCEPT ![t] = "idle"]
    /\ last' = [last EXCEPT ![t] = Outcome("returned", NoRef)]
    /\ UNCHANGED <<streak, shared, hideTraceback, tlPending, heap, held, frame,
                   calls>>

\* ------------------------------------------------------------------------
\* Lifecycle controls
\* ------------------------------------------------------------------------

\* Mutant of dice: only the shared slot is cleared.
DiceSharedOnly(t) ==
    /\ pc[t] = "idle"
    /\ streak' = [streak EXCEPT ![t] = NoStreak]
    /\ shared' = NoRef
    /\ frame' = [frame EXCEPT ![t] =
                    [IdleFrame EXCEPT !.op = "dice",
                        !.prePending = getPending(t)]]
    /\ last' = [last EXCEPT ![t] = Outcome("returned", NoRef)]
    /\ UNCHANGED <<registry, lock, hideTraceback, tlPending, held, pc, calls>>
    /\ heap' = Collect(heap, Live')

\* Mutant of dice: the thread-local slot of every thread is cleared.
DiceAllThreads(t) ==
    /\ pc[t] = "idle"
    /\ streak' = [streak EXCEPT ![t] = NoStreak]
    /\ shared' = NoRef
    /\ tlPending' = [u \in Threads |->
                        IF tlPending[u] = Unset THEN Unset ELSE NoRef]
    /\ frame' = [frame EXCEPT ![t] =
                    [IdleFrame EXCEPT !.op = "dice",
                        !.prePending = getPending(t)]]
    /\ last' = [last EXCEPT ![t] = Outcome("returned", NoRef)]
    /\ UNCHANGED <<registry, lock, hideTraceback, held, pc, calls>>
    /\ heap' = Collect(heap, Live')

\* NoModule.dice
Dice(t) ==
    /\ pc[t] = "idle"
    /\ streak' = [streak EXCEPT ![t] = NoStreak]
    /\ shared' = NoRef
    /\ tlPending' = [tlPending EXCEPT ![t] = IF @ = Unset THEN Unset ELSE NoRef]
    /\ frame' = [frame EXCEPT ![t] =
                    [IdleFrame EXCEPT !.op = "dice",
                        !.prePending = getPending(t)]]
    /\ last' = [last EXCEPT ![t] = Outcome("returned", NoRef)]
    /\ UNCHANGED <<registry, lock, hideTraceback, held, pc, calls>>
    /\ heap' = Collect(heap, Live')

\* NoModule.traceback
Traceback(t) ==
    /\ pc[t] = "idle"
    /\ ~hideTraceback
    /\ hideTraceback' = TRUE
    /\ frame' = [frame EXCEPT ![t] = [IdleFrame EXCEPT !.op = "traceback"]]
    /\ last' = [last EXCEPT ![t] = Outcome("returned", NoRef)]
    /\ UNCHANGED <<streak, registry, lock, shared, tlPending, held, pc, calls>>
    /\ heap' = Collect(heap, Live')

\* The caller leaves the except block in which it handled a domain error.
LeaveExcept(t) ==
    /\ pc[t] = "idle"
    /\ held[t] /= NoRef
    /\ held' = [held EXCEPT ![t] = NoRef]
    /\ UNCHANGED <<streak, registry, lock, shared, hideTraceback, tlPending, pc,
                   frame, last, calls>>
    /\ heap' = Collect(heap, Live')

\* ------------------------------------------------------------------------
\* Dispatcher: call.py, module mode (NoModule.__call__)
\* ------------------------------------------------------------------------

\* The frame of a dispatcher call as _handleCall receives it; prePending
\* records the pending state the caller's chain has on entry.
CallFrame(t, op, code, codes, complaint, soften, exception) ==
    [IdleFrame EXCEPT
        !.op = op, !.code = code, !.codes = codes, !.complaint = complaint,
        !.soften = soften, !.exception = exception,
        !.prePending = getPending(t)]

\* `raise exc`, or raze(exc) in terminate mode: the caller catches a raised
\* domain error; raze prints it and ends the thread with SystemExit(1).
Raise(t, ref) ==
    IF hideTraceback
    THEN /\ last' = [last EXCEPT ![t] = Outcome("exit", ref)]
         /\ pc' = [pc EXCEPT ![t] = "exited"]
         /\ held' = held
    ELSE /\ last' = [last EXCEPT ![t] = Outcome("raised", ref)]
         /\ pc' = [pc EXCEPT ![t] = "idle"]
         /\ held' = [held EXCEPT ![t] = ref]

\* An exception that is no domain error reaches the caller, who handles it.
RaiseOther(t, kind) ==
    /\ last' = [last EXCEPT ![t] = Outcome(kind, NoRef)]
    /\ pc' = [pc EXCEPT ![t] = "idle"]
    /\ held' = [held EXCEPT ![t] = NoRef]

\* The call returns None to the caller.
Return(t) ==
    /\ last' = [last EXCEPT ![t] = Outcome("returned", NoRef)]
    /\ pc' = [pc EXCEPT ![t] = "idle"]
    /\ held' = held

\* Mutant of _setPending: one slot for the whole process.
setPendingProcessWide(t, ref) == tlPending' = [u \in Threads |-> ref]

\* call.py _setPending
setPending(t, ref) == tlPending' = [tlPending EXCEPT ![t] = ref]

\* Mutant of _handleSoftOrRaise: the soften argument is not looked at.
handleSoftOrRaiseIgnoresSoften(t, ref, softFlag, soften) ==
    IF softFlag
    THEN /\ setPending(t, ref)
         /\ Return(t)
    ELSE /\ tlPending' = tlPending
         /\ Raise(t, ref)

\* call.py _handleSoftOrRaise
handleSoftOrRaise(t, ref, softFlag, soften) ==
    IF softFlag \/ soften
    THEN /\ setPending(t, ref)
         /\ Return(t)
    ELSE /\ tlPending' = tlPending
         /\ Raise(t, ref)

\* _handleCall with no argument: _handleEmptyCall up to the call of _makeOne
CallEmpty(t, complaint, soften) ==
    /\ pc[t] = "idle"
    /\ streak' = [streak EXCEPT ![t] = NoStreak]
    /\ calls > 0
    /\ calls' = calls - 1
    /\ LET f == CallFrame(t, "empty", 0, <<>>, complaint, soften, NoFailure)
       IN  IF getPending(t) /= NoRef
           THEN /\ frame' = [frame EXCEPT ![t] = f]
                /\ Raise(t, getPending(t))
           ELSE /\ frame' = [frame EXCEPT ![t] = [f EXCEPT !.mkCode = 0]]
                /\ pc' = [pc EXCEPT ![t] = "make"]
                /\ last' = [last EXCEPT ![t] = NoOutcome]
                /\ held' = held
    /\ UNCHANGED <<registry, lock, shared, hideTraceback, tlPending>>
    /\ heap' = Collect(heap, Live')

\* _handleCall with one list argument: _handleExceptionGroup, entered
CallList(t, codes, complaint, soften) ==
    /\ pc[t] = "idle"
    /\ streak' = [streak EXCEPT ![t] = NoStreak]
    /\ calls > 0
    /\ calls' = calls - 1
    /\ frame' = [frame EXCEPT ![t] =
                    [CallFrame(t, "list", 0, codes, complaint, soften, NoFailure)
                        EXCEPT !.mkCode = codes[1]]]
    /\ pc' = [pc EXCEPT ![t] = "make"]
    /\ last' = [last EXCEPT ![t] = NoOutcome]
    /\ UNCHANGED <<registry, lock, shared, hideTraceback, tlPending, held>>
    /\ heap' = Collect(heap, Live')

\* Mutant of the raw-failure shape: the failure passed in is raised again.
CallRawReraises(t, exception, complaint, soften) ==
    /\ pc[t] = "idle"
    /\ streak' = [streak EXCEPT ![t] = NoStreak]
    /\ calls > 0
    /\ calls' = calls - 1
    /\ frame' = [frame EXCEPT ![t] =
                    CallFrame(t, "raw", 0, <<>>, complaint, soften, <<exception>>)]
    /\ RaiseOther(t, exception.type)
    /\ UNCHANGED <<registry, lock, shared, hideTraceback, tlPending>>
    /\ heap' = Collect(heap, Live')

\* _handleCall with one BaseException argument: the no-op handler
CallRaw(t, exception, complaint, soften) ==
    /\ pc[t] = "idle"
    /\ streak' = [streak EXCEPT ![t] = NoStreak]
    /\ calls > 0
    /\ calls' = calls - 1
    /\ frame' = [frame EXCEPT ![t] =
                    CallFrame(t, "raw", 0, <<>>, complaint, soften, <<exception>>)]
    /\ Return(t)
    /\ UNCHANGED <<registry, lock, shared, hideTraceback, tlPending>>
    /\ heap' = Collect(heap, Live')

\* _handleCall with one int: _handleSingleCode through _getRegistryEntry
CallSingle(t, code, complaint, soften) ==
    /\ pc[t] = "idle"
    /\ streak' = [streak EXCEPT ![t] =
            IF complaint /= None THEN NoStreak
            ELSE IF getPending(t) = NoRef /\ getRegistryEntry(code)[1]
            THEN [code |-> code, n |-> 1]
            ELSE IF streak[t].n > 0 /\ streak[t].code = code
            THEN [code |-> code, n |-> streak[t].n + 1]
            ELSE NoStreak]
    /\ calls > 0
    /\ calls' = calls - 1
    /\ frame' = [frame EXCEPT ![t] =
                    [CallFrame(t, "single", code, <<>>, complaint, soften, NoFailure)
                        EXCEPT !.softFlag = getRegistryEntry(code)[1],
                               !.defaultMsg = getRegistryEntry(code)[2]]]
    /\ pc' = [pc EXCEPT ![t] = "pending"]
    /\ last' = [last EXCEPT ![t] = NoOutcome]
    /\ UNCHANGED <<registry, lock, shared, hideTraceback, tlPending, held>>
    /\ heap' = Collect(heap, Live')

\* NoModule.go(code, fn, soften=...) and `with no.go(code, soften=...)`
\* after fn (the block) has raised a domain error: the except clause holds
\* it as exc (frame.caught) and calls self(code, soften=soften), the
\* single-code shape, whose handler gets exception=None from CALL_HANDLERS.
\* go returns None, or the call's exception leaves go.
GoDomainError(t, code, soften) ==
    /\ pc[t] = "idle"
    /\ held[t] /= NoRef
    /\ streak' = [streak EXCEPT ![t] =
            IF getPending(t) = NoRef /\ getRegistryEntry(code)[1]
            THEN [code |-> code, n |-> 1]
            ELSE IF streak[t].n > 0 /\ streak[t].code = code
            THEN [code |-> code, n |-> streak[t].n + 1]
            ELSE NoStreak]
    /\ calls > 0
    /\ calls' = calls - 1
    /\ frame' = [frame EXCEPT ![t] =
                    [CallFrame(t, "single", code, <<>>, None, soften, NoFailure)
                        EXCEPT !.softFlag = getRegistryEntry(code)[1],
                               !.defaultMsg = getRegistryEntry(code)[2],
                               !.caught = held[t]]]
    /\ pc' = [pc EXCEPT ![t] = "pending"]
    /\ last' = [last EXCEPT ![t] = NoOutcome]
    /\ held' = [held EXCEPT ![t] = NoRef]
    /\ UNCHANGED <<registry, lock, shared, hideTraceback, tlPending>>
    /\ heap' = Collect(heap, Live')

\* _handleCall with an int and a str: _handleCodeMessage through
\* _getRegistryEntry (the complaint keyword is not passed on)
CallMessage(t, code, msg, soften) ==
    /\ pc[t] = "idle"
    /\ streak' = [streak EXCEPT ![t] = NoStreak]
    /\ calls > 0
    /\ calls' = calls - 1
    /\ frame' = [frame EXCEPT ![t] =
                    [CallFrame(t, "message", code, <<>>, msg, soften, NoFailure)
                        EXCEPT !.softFlag = getRegistryEntry(code)[1],
                               !.defaultMsg = getRegistryEntry(code)[2]]]
    /\ pc' = [pc EXCEPT ![t] = "pending"]
    /\ last' = [last EXCEPT ![t] = NoOutcome]
    /\ UNCHANGED <<registry, lock, shared, hideTraceback, tlPending, held>>
    /\ heap' = Collect(heap, Live')

\* _handleCall with an int and a BaseException: _handleCodeExceptionLink
\* through _getRegistryEntry
CallLink(t, code, exception, complaint, soften) ==
    /\ pc[t] = "idle"
    /\ streak' = [streak EXCEPT ![t] = NoStreak]
    /\ calls > 0
    /\ calls' = calls - 1
    /\ frame' = [frame EXCEPT ![t] =
                    [CallFrame(t, "link", code, <<>>, complaint, soften, <<exception>>)
                        EXCEPT !.softFlag = getRegistryEntry(code)[1],
                               !.defaultMsg = getRegistryEntry(code)[2],
                               !.mkCode = code]]
    /\ pc' = [pc EXCEPT ![t] = "make"]
    /\ last' = [last EXCEPT ![t] = NoOutcome]
    /\ UNCHANGED <<registry, lock, shared, hideTraceback, tlPending, held>>
    /\ heap' = Collect(heap, Live')

\* Mutant of the fall-through of _handleCall: with soften the malformed
\* call is swallowed.
CallUsageSoftens(t, complaint, soften) ==
    /\ pc[t] = "idle"
    /\ streak' = [streak EXCEPT ![t] = NoStreak]
    /\ calls > 0
    /\ calls' = calls - 1
    /\ frame' = [frame EXCEPT ![t] =
                    CallFrame(t, "usage", 0, <<>>, complaint, soften, NoFailure)]
    /\ IF soften THEN Return(t) ELSE RaiseOther(t, "TypeError")
    /\ UNCHANGED <<registry, lock, shared, hideTraceback, tlPending>>
    /\ heap' = Collect(heap, Live')

\* _handleCall with arguments no pattern matches: TypeError
CallUsage(t, complaint, soften) ==
    /\ pc[t] = "idle"
    /\ streak' = [streak EXCEPT ![t] = NoStreak]
    /\ calls > 0
    /\ calls' = calls - 1
    /\ frame' = [frame EXCEPT ![t] =
                    CallFrame(t, "usage", 0, <<>>, complaint, soften, NoFailure)]
    /\ RaiseOther(t, "TypeError")
    /\ UNCHANGED <<registry, lock, shared, hideTraceback, tlPending>>
    /\ heap' = Collect(heap, Live')

\* Mutant of the early-accumulation block: a hard code is raised at once
\* instead of being merged.
MergeIntoPendingOnlySoft(t, p) ==
    LET f  == frame[t]
        o1 == addCode(heap[p], f.code, f.defaultMsg)
        o2 == addMessage(o1, f.code, f.complaint)
        o3 == setSoft(o2, f.code, f.softFlag)
    IN  /\ handleSoftOrRaise(t, p, f.softFlag, f.soften)
        /\ UNCHANGED <<streak, registry, lock, shared, hideTraceback, frame,
                       calls>>
        /\ heap' = Collect([heap EXCEPT ![p] = o3], Live')

\* The early-accumulation block of _handleSingleCode (3a) and of
\* _handleCodeMessage on the pending state p: addCode, addMessage, soft
\* flag, _setPending, return.
MergeIntoPending(t, p) ==
    LET f  == frame[t]
        o1 == addCode(heap[p], f.code, f.defaultMsg)
        o2 == addMessage(o1, f.code, f.complaint)
        o3 == setSoft(o2, f.code, f.softFlag)
    IN  /\ setPending(t, p)
        /\ Return(t)
        /\ UNCHANGED <<streak, registry, lock, shared, hideTraceback, frame,
                       calls>>
        /\ heap' = Collect([heap EXCEPT ![p] = o3], Live')

\* `if _getPending() is not None:` of _handleSingleCode / _handleCodeMessage.
\* With a thread-local pending state the second _getPending() reads the same
\* slot and the merge follows at once; a state found in the shared slot is
\* read again in the next step.
PendingCheck(t) ==
    /\ pc[t] = "pending"
    /\ IF getPending(t) = NoRef
       THEN /\ pc' = [pc EXCEPT ![t] = "make"]
            /\ frame' = [frame EXCEPT ![t].mkCode = frame[t].code]
            /\ UNCHANGED <<streak, registry, lock, shared, hideTraceback, tlPending,
                           heap, held, last, calls>>
       ELSE IF ThreadPending(t) /= NoRef
       THEN MergeIntoPending(t, ThreadPending(t))
       ELSE /\ pc' = [pc EXCEPT ![t] = "merge"]
            /\ UNCHANGED <<streak, registry, lock, shared, hideTraceback, tlPending,
                           heap, held, frame, last, calls>>

\* `pending = cast(NoBaseException, _getPending())` and the merge; when the
\* shared slot was emptied in between, pending is None and addCode fails.
MergeShared(t) ==
    /\ pc[t] = "merge"
    /\ IF getPending(t) /= NoRef
       THEN MergeIntoPending(t, getPending(t))
       ELSE /\ RaiseOther(t, "AttributeError")
            /\ UNCHANGED <<streak, registry, lock, shared, hideTraceback, tlPending,
                           frame, calls>>
            /\ heap' = Collect(heap, Live')

\* Mutant of _makeOne: the registered default message is not passed on.
MakeOneWithoutDefault(t) ==
    /\ pc[t] = "make"
    /\ lock = ""
    /\ LET f  == frame[t]
           c  == f.mkCode
           cp == IF f.op = "empty" THEN None ELSE f.complaint
           e  == RegistryGet(c, <<"NoBaseException", ErrorMsg(c), <<>>, FALSE>>)
           o1 == ExcInit(c, cp, <<>>, <<>>, None, <<[k |-> c, v |-> e[4]]>>)
           o2 == IF f.exception = NoFailure THEN o1
                 ELSE recordLinkedException(o1, f.exception[1])
           r  == NewRef(heap)
       IN  /\ frame' = [frame EXCEPT ![t].exc = r, ![t].extras = e[3]]
           /\ pc' = [pc EXCEPT ![t] = IF e[3] = <<>> THEN "made" ELSE "extra_msg"]
           /\ UNCHANGED <<streak, registry, lock, shared, hideTraceback, tlPending,
                          held, last, calls>>
           /\ heap' = Collect([heap EXCEPT ![r] = o2], Live')

\* NoModule._makeOne up to the loop over linkedCodes: the registry entry is
\* read under the lock, the exception constructed, the failures recorded.
MakeOne(t) ==
    /\ pc[t] = "make"
    /\ lock = ""
    /\ LET f  == frame[t]
           c  == f.mkCode
           cp == IF f.op = "empty" THEN None ELSE f.complaint
           e  == RegistryGet(c, <<"NoBaseException", ErrorMsg(c), <<>>, FALSE>>)
           o1 == ExcInit(c, cp, <<>>, <<>>, e[2], <<[k |-> c, v |-> e[4]]>>)
           o2 == IF f.exception = NoFailure THEN o1
                 ELSE recordLinkedException(o1, f.exception[1])
           r  == NewRef(heap)
       IN  /\ frame' = [frame EXCEPT ![t].exc = r, ![t].extras = e[3]]
           /\ pc' = [pc EXCEPT ![t] = IF e[3] = <<>> THEN "made" ELSE "extra_msg"]
           /\ UNCHANGED <<streak, registry, lock, shared, hideTraceback, tlPending,
                          held, last, calls>>
           /\ heap' = Collect([heap EXCEPT ![r] = o2], Live')

\* _makeOne, loop body: `msg = self._registry.get(extra, ...)[1]`
ExtraMsg(t) ==
    /\ pc[t] = "extra_msg"
    /\ LET x == frame[t].extras[1]
       IN  frame' = [frame EXCEPT ![t].extraMsg =
                        RegistryGet(x, <<None, ErrorMsg(x), <<>>, FALSE>>)[2]]
    /\ pc' = [pc EXCEPT ![t] = "extra_soft"]
    /\ UNCHANGED <<streak, registry, lock, shared, hideTraceback, tlPending, heap,
                   held, last, calls>>

\* Mutant of the loop body of _makeOne: the linked code gets the soft flag
\* of the primary code.
ExtraSoftCopiesPrimary(t) ==
    /\ pc[t] = "extra_soft"
    /\ LET f == frame[t]
           x == f.extras[1]
           extraSoft == MGet(heap[f.exc].softCodes, f.mkCode)
           o == setSoft(addCode(heap[f.exc], x, f.extraMsg), x, extraSoft)
       IN  /\ frame' = [frame EXCEPT ![t].extras = Tail(f.extras),
                                     ![t].extraMsg = None]
           /\ pc' = [pc EXCEPT ![t] =
                        IF Tail(f.extras) = <<>> THEN "made" ELSE "extra_msg"]
           /\ UNCHANGED <<streak, registry, lock, shared, hideTraceback, tlPending,
                          held, last, calls>>
           /\ heap' = Collect([heap EXCEPT ![f.exc] = o], Live')

\* _makeOne, loop body: `extraSoft = self._registry.get(extra, ...)[3]`,
\* addCode and the soft flag of the linked code
ExtraSoft(t) ==
    /\ pc[t] = "extra_soft"
    /\ LET f == frame[t]
           x == f.extras[1]
           extraSoft == RegistryGet(x, <<None, "", <<>>, FALSE>>)[4]
           o == setSoft(addCode(heap[f.exc], x, f.extraMsg), x, extraSoft)
       IN  /\ frame' = [frame EXCEPT ![t].extras = Tail(f.extras),
                                     ![t].extraMsg = None]
           /\ pc' = [pc EXCEPT ![t] =
                        IF Tail(f.extras) = <<>> THEN "made" ELSE "extra_msg"]
           /\ UNCHANGED <<streak, registry, lock, shared, hideTraceback, tlPending,
                          held, last, calls>>
           /\ heap' = Collect([heap EXCEPT ![f.exc] = o], Live')

\* _handleSingleCode (3d), _handleCodeMessage, _handleCodeExceptionLink:
\* _handleSoftOrRaise on the exception _makeOne returned
FinishSoftOrRaise(t) ==
    /\ pc[t] = "made"
    /\ frame[t].op \in {"single", "message", "link"}
    /\ handleSoftOrRaise(t, frame[t].exc, frame[t].softFlag, frame[t].soften)
    /\ frame' = [frame EXCEPT ![t].exc = NoRef]
    /\ UNCHANGED <<streak, registry, lock, shared, hideTraceback, calls>>
    /\ heap' = Collect(heap, Live')

\* Mutant of the module-mode empty call: raise-or-stash on code 0's flag.
FinishEmptySoftOrRaise(t) ==
    /\ pc[t] = "made"
    /\ frame[t].op = "empty"
    /\ handleSoftOrRaise(t, frame[t].exc, getRegistryEntry(0)[1],
                         frame[t].soften)
    /\ frame' = [frame EXCEPT ![t].exc = NoRef]
    /\ UNCHANGED <<streak, registry, lock, shared, hideTraceback, calls>>
    /\ heap' = Collect(heap, Live')

\* _handleEmptyCall, module mode: the exception of code 0 is raised
FinishEmpty(t) ==
    /\ pc[t] = "made"
    /\ frame[t].op = "empty"
    /\ Raise(t, frame[t].exc)
    /\ frame' = [frame EXCEPT ![t].exc = NoRef]
    /\ UNCHANGED <<streak, registry, lock, shared, hideTraceback, tlPending,
                   calls>>
    /\ heap' = Collect(heap, Live')

\* Mutant of the code-list shape: with soften the first member is stashed
\* and the call returns.
FinishListSoftens(t) ==
    /\ pc[t] = "made"
    /\ frame[t].op = "list"
    /\ LET f == frame[t]
           made == Append(f.made, heap[f.exc])
       IN  IF Len(made) < Len(f.codes)
           THEN /\ frame' = [frame EXCEPT ![t].made = made, ![t].exc = NoRef,
                                          ![t].mkCode = f.codes[Len(made) + 1]]
                /\ pc' = [pc EXCEPT ![t] = "make"]
                /\ UNCHANGED <<last, held, tlPending>>
           ELSE IF f.soften
           THEN /\ frame' = [frame EXCEPT ![t].made = <<>>, ![t].exc = NoRef]
                /\ setPending(t, f.exc)
                /\ Return(t)
           ELSE /\ frame' = [frame EXCEPT ![t].made = <<>>, ![t].exc = NoRef]
                /\ last' = [last EXCEPT ![t] =
                               [kind |-> "group", ref |-> NoRef, group |-> made]]
                /\ pc' = [pc EXCEPT ![t] = "idle"]
                /\ held' = [held EXCEPT ![t] = NoRef]
                /\ tlPending' = tlPending
    /\ UNCHANGED <<streak, registry, lock, shared, hideTraceback, calls>>
    /\ heap' = Collect(heap, Live')

\* _handleExceptionGroup, module mode: the next exception of the list
\* comprehension, or `raise ExceptionGroup(...)` after the last one
FinishList(t) ==
    /\ pc[t] = "made"
    /\ frame[t].op = "list"
    /\ LET f == frame[t]
           made == Append(f.made, heap[f.exc])
       IN  IF Len(made) < Len(f.codes)
           THEN /\ frame' = [frame EXCEPT ![t].made = made, ![t].exc = NoRef,
                                          ![t].mkCode = f.codes[Len(made) + 1]]
                /\ pc' = [pc EXCEPT ![t] = "make"]
                /\ UNCHANGED <<last, held>>
           ELSE /\ frame' = [frame EXCEPT ![t].made = <<>>, ![t].exc = NoRef]
                /\ last' = [last EXCEPT ![t] =
                               [kind |-> "group", ref |-> NoRef, group |-> made]]
                /\ pc' = [pc EXCEPT ![t] = "idle"]
                /\ held' = [held EXCEPT ![t] = NoRef]
    /\ UNCHANGED <<streak, registry, lock, shared, hideTraceback, tlPending,
                   calls>>
    /\ heap' = Collect(heap, Live')

\* ------------------------------------------------------------------------
\* Instance mode: methods of the ErrorState e that the caller's except
\* block has caught (`except no.way as e:`), held[t]
\* ------------------------------------------------------------------------

\* e.addCode(code, defaultComplaint)
StateAddCode(t, code, defaultComplaint) ==
    /\ pc[t] = "idle"
    /\ held[t] /= NoRef
    /\ calls > 0
    /\ calls' = calls - 1
    /\ streak' = [streak EXCEPT ![t] = NoStreak]
    /\ frame' = [frame EXCEPT ![t] =
                    [IdleFrame EXCEPT !.op = "addCode", !.isModule = FALSE,
                        !.code = code, !.complaint = defaultComplaint,
                        !.exc = held[t], !.prePending = getPending(t)]]
    /\ last' = [last EXCEPT ![t] = Outcome("returned", NoRef)]
    /\ UNCHANGED <<registry, lock, shared, hideTraceback, tlPending, held, pc>>
    /\ heap' = Collect([heap EXCEPT ![held[t]] =
                            addCode(@, code, defaultComplaint)], Live')

\* e.addMessage(code, complaint)
StateAddMessage(t, code, complaint) ==
    /\ pc[t] = "idle"
    /\ held[t] /= NoRef
    /\ calls > 0
    /\ calls' = calls - 1
    /\ streak' = [streak EXCEPT ![t] = NoStreak]
    /\ frame' = [frame EXCEPT ![t] =
                    [IdleFrame EXCEPT !.op = "addMessage", !.isModule = FALSE,
                        !.code = code, !.complaint = complaint,
                        !.exc = held[t], !.prePending = getPending(t)]]
    /\ last' = [last EXCEPT ![t] = Outcome("returned", NoRef)]
    /\ UNCHANGED <<registry, lock, shared, hideTraceback, tlPending, held, pc>>
    /\ heap' = Collect([heap EXCEPT ![held[t]] =
                            addMessage(@, code, complaint)], Live')

\* call.py _getRegistryEntry, instance mode: (softFlag, defaultMsg)
getInstanceEntry(o, code) == <<MGetOr(o.softCodes, code, FALSE), ErrorMsg(code)>>

\* addCode, addMessage and the soft flag, as the merging blocks of
\* _handleSingleCode and _handleCodeMessage apply them to an ErrorState
merged(o, code, defaultMsg, complaint, softFlag) ==
    setSoft(addMessage(addCode(o, code, defaultMsg), code, complaint),
            code, softFlag)

\* e(code, complaint=..., soften=...): _handleSingleCode with isModule False.
\* With a state pending, 3a merges into it.  Otherwise 3c merges into e and
\* calls _handleSoftOrRaise(e, ...); when that stashes and returns, control
\* goes on to 3d, which constructs e.__class__(code, complaint) and calls
\* _handleSoftOrRaise on the new exception.
InstSingle(t, code, complaint, soften) ==
    /\ pc[t] = "idle"
    /\ held[t] /= NoRef
    /\ calls > 0
    /\ calls' = calls - 1
    /\ streak' = [streak EXCEPT ![t] = NoStreak]
    /\ UNCHANGED <<registry, lock, shared, hideTraceback>>
    /\ LET e  == held[t]
           p  == getPending(t)
           sf == getInstanceEntry(heap[e], code)[1]
           dm == getInstanceEntry(heap[e], code)[2]
           r  == NewRef(heap)
       IN  /\ frame' = [frame EXCEPT ![t] =
                    [CallFrame(t, "inst_single", code, <<>>, complaint, soften,
                               NoFailure)
                        EXCEPT !.isModule = FALSE, !.softFlag = sf,
                               !.defaultMsg = dm, !.exc = e]]
           /\ IF p /= NoRef
              THEN /\ setPending(t, p)
                   /\ Return(t)
                   /\ heap' = Collect([heap EXCEPT ![p] =
                                 merged(@, code, dm, complaint, sf)], Live')
              ELSE IF sf \/ soften
              THEN /\ setPending(t, r)
                   /\ Return(t)
                   /\ heap' = Collect([heap EXCEPT
                                 ![e] = merged(@, code, dm, complaint, sf),
                                 ![r] = ExcInit(code, complaint, <<>>, <<>>,
                                                None, <<>>)], Live')
              ELSE /\ tlPending' = tlPending
                   /\ Raise(t, e)
                   /\ heap' = Collect([heap EXCEPT ![e] =
                                 merged(@, code, dm, complaint, sf)], Live')

\* e(code, msg, soften=...): _handleCodeMessage with isModule False; as
\* _handleSingleCode, it goes on to construct a new exception after a soft
\* _handleSoftOrRaise(e, ...) has returned.
InstMessage(t, code, msg, soften) ==
    /\ pc[t] = "idle"
    /\ held[t] /= NoRef
    /\ calls > 0
    /\ calls' = calls - 1
    /\ streak' = [streak EXCEPT ![t] = NoStreak]
    /\ UNCHANGED <<registry, lock, shared, hideTraceback>>
    /\ LET e  == held[t]
           p  == getPending(t)
           sf == getInstanceEntry(heap[e], code)[1]
           dm == getInstanceEntry(heap[e], code)[2]
           r  == NewRef(heap)
       IN  /\ frame' = [frame EXCEPT ![t] =
                    [CallFrame(t, "inst_message", code, <<>>, msg, soften,
                               NoFailure)
                        EXCEPT !.isModule = FALSE, !.softFlag = sf,
                               !.defaultMsg = dm, !.exc = e]]
           /\ IF p /= NoRef
              THEN /\ setPending(t, p)
                   /\ Return(t)
                   /\ heap' = Collect([heap EXCEPT ![p] =
                                 merged(@, code, dm, msg, sf)], Live')
              ELSE IF sf \/ soften
              THEN /\ setPending(t, r)
                   /\ Return(t)
                   /\ heap' = Collect([heap EXCEPT
                                 ![e] = merged(@, code, dm, msg, sf),
                                 ![r] = ExcInit(code, msg, <<>>, <<>>,
                                                None, <<>>)], Live')
              ELSE /\ tlPending' = tlPending
                   /\ Raise(t, e)
                   /\ heap' = Collect([heap EXCEPT ![e] =
                                 merged(@, code, dm, msg, sf)], Live')

\* ------------------------------------------------------------------------
\* Builder: no.build() ... .build()
\* ------------------------------------------------------------------------

\* NoModule.build: a new builder, held by the caller's method chain.
BuilderNew(t) ==
    /\ pc[t] = "idle"
    /\ calls > 0
    /\ streak' = [streak EXCEPT ![t] = NoStreak]
    /\ frame' = [frame EXCEPT ![t] =
                    [IdleFrame EXCEPT !.op = "build",
                        !.prePending = getPending(t)]]
    /\ pc' = [pc EXCEPT ![t] = "building"]
    /\ last' = [last EXCEPT ![t] = NoOutcome]
    /\ UNCHANGED <<registry, lock, shared, hideTraceback, tlPending, held,
                   calls>>
    /\ heap' = Collect(heap, Live')

\* NoBuilder.withCode in the chain (`return self`)
BuilderWithCode(t, code, complaint) ==
    /\ pc[t] = "building"
    /\ calls > 0
    /\ calls' = calls - 1
    /\ frame' = [frame EXCEPT ![t].builder = withCode(@, code, complaint)]
    /\ UNCHANGED <<streak, registry, lock, shared, hideTraceback, tlPending,
                   heap, held, pc, last>>

\* NoBuilder.withLinked in the chain (`return self`)
BuilderWithLinked(t, exception) ==
    /\ pc[t] = "building"
    /\ calls > 0
    /\ calls' = calls - 1
    /\ frame' = [frame EXCEPT ![t].builder = withLinked(@, exception)]
    /\ UNCHANGED <<streak, registry, lock, shared, hideTraceback, tlPending,
                   heap, held, pc, last>>

\* NoBuilder.asSoft in the chain (`return self`)
BuilderAsSoft(t, code) ==
    /\ pc[t] = "building"
    /\ calls > 0
    /\ calls' = calls - 1
    /\ frame' = [frame EXCEPT ![t].builder = asSoft(@, code)]
    /\ UNCHANGED <<streak, registry, lock, shared, hideTraceback, tlPending,
                   heap, held, pc, last>>

\* NoBuilder.build at the end of the chain: ValueError without a code, else
\* the exception is returned.  The chain drops the builder; frame[t].builder
\* keeps what the methods before build() had put into it.
BuilderBuild(t) ==
    /\ pc[t] = "building"
    /\ UNCHANGED <<streak, registry, lock, shared, hideTraceback, tlPending,
                   frame, calls>>
    /\ IF frame[t].builder.codes = <<>>
       THEN /\ RaiseOther(t, "ValueError")
            /\ heap' = Collect(heap, Live')
       ELSE /\ last' = [last EXCEPT ![t] = Outcome("returned", NewRef(heap))]
            /\ pc' = [pc EXCEPT ![t] = "idle"]
            /\ held' = held
            /\ heap' = Collect([heap EXCEPT ![NewRef(heap)] =
                                    build(frame[t].builder)], Live')

\* ------------------------------------------------------------------------
\* Specification
\* ------------------------------------------------------------------------

\* One call chain running every operation of the library.
Next ==
    \E t \in Chain :
        \/ \E r \in Registrations : LikeyAcquire(t, r)
        \/ LikeyCheck(t)
        \/ LikeyWrite(t)
        \/ Dice(t)
        \/ LeaveExcept(t)
        \/ \E kw \in Keywords : CallEmpty(t, kw.complaint, kw.soften)
        \/ \E l \in CodeLists, cp \in Complaints, s \in BOOLEAN :
               CallList(t, l, cp, s)
        \/ \E x \in ExtFailures, kw \in Keywords :
               CallRaw(t, x, kw.complaint, kw.soften)
        \/ \E c \in Codes, cp \in Complaints, s \in BOOLEAN :
               CallSingle(t, c, cp, s)
        \/ \E c \in Codes, m \in Messages, s \in BOOLEAN :
               CallMessage(t, c, m, s)
        \/ \E c \in Codes, x \in ExtFailures, cp \in Complaints, s \in BOOLEAN :
               CallLink(t, c, x, cp, s)
        \/ \E kw \in Keywords : CallUsage(t, kw.complaint, kw.soften)
        \/ PendingCheck(t)
        \/ MakeOne(t)
        \/ ExtraMsg(t)
        \/ ExtraSoft(t)
        \/ FinishSoftOrRaise(t)
        \/ FinishEmpty(t)
        \/ FinishList(t)

Spec == Init /\ [][Next]_vars

\* One call chain accumulating soft errors: registration, the single-code
\* and code+message shapes, the empty call and dice.
NextAccum ==
    \E t \in Chain :
        \/ \E r \in AccumRegistrations : LikeyAcquire(t, r)
        \/ LikeyCheck(t)
        \/ LikeyWrite(t)
        \/ Dice(t)
        \/ LeaveExcept(t)
        \/ \E kw \in Keywords : CallEmpty(t, kw.complaint, kw.soften)
        \/ \E c \in Codes, cp \in Complaints, s \in BOOLEAN :
               CallSingle(t, c, cp, s)
        \/ \E c \in Codes, m \in Messages, s \in BOOLEAN :
               CallMessage(t, c, m, s)
        \/ PendingCheck(t)
        \/ MakeOne(t)
        \/ ExtraMsg(t)
        \/ ExtraSoft(t)
        \/ FinishSoftOrRaise(t)
        \/ FinishEmpty(t)

SpecAccum == InitAccum /\ [][NextAccum]_vars

\* Two threads, each registering and calling its own code.
NextThreads ==
    \E t \in Threads :
        \/ \E r \in ThreadRegistrations : LikeyAcquire(t, r)
        \/ LikeyCheck(t)
        \/ LikeyWrite(t)
        \/ Dice(t)
        \/ LeaveExcept(t)
        \/ \E c \in CodesOf(t), cp \in Complaints, s \in BOOLEAN :
               CallSingle(t, c, cp, s)
        \/ \E c \in CodesOf(t), m \in Messages, s \in BOOLEAN :
               CallMessage(t, c, m, s)
        \/ PendingCheck(t)
        \/ MakeOne(t)
        \/ FinishSoftOrRaise(t)

SpecThreads == InitThreads /\ [][NextThreads]_vars

\* Two threads registering the same codes concurrently.
NextRegistry ==
    \E t \in Threads :
        \/ \E r \in RegistryRegistrations : LikeyAcquire(t, r)
        \/ LikeyCheck(t)
        \/ LikeyWrite(t)

SpecRegistry == Init /\ [][NextRegistry]_vars

\* The caller's own code assigns the public attribute no.pending.value a
\* domain error it constructs, no.way(code); the library never does.
PokeShared(t, code) ==
    /\ pc[t] = "idle"
    /\ shared = NoRef
    /\ shared' = NewRef(heap)
    /\ UNCHANGED <<streak, registry, lock, hideTraceback, tlPending, held, pc,
                   frame, last, calls>>
    /\ heap' = Collect([heap EXCEPT ![NewRef(heap)] =
                            ExcInit(code, None, <<>>, <<>>, None, <<>>)], Live')

\* One call chain whose caller also fills the shared slot by hand.
NextShared ==
    \E t \in Chain :
        \/ \E r \in Registrations : LikeyAcquire(t, r)
        \/ LikeyCheck(t)
        \/ LikeyWrite(t)
        \/ Dice(t)
        \/ \E c \in Codes : PokeShared(t, c)
        \/ \E kw \in Keywords : CallEmpty(t, kw.complaint, kw.soften)
        \/ \E c \in Codes, cp \in Complaints, s \in BOOLEAN :
               CallSingle(t, c, cp, s)
        \/ \E c \in Codes, m \in Messages, s \in BOOLEAN :
               CallMessage(t, c, m, s)
        \/ PendingCheck(t)
        \/ MergeShared(t)
        \/ MakeOne(t)
        \/ ExtraMsg(t)
        \/ ExtraSoft(t)
        \/ FinishSoftOrRaise(t)
        \/ FinishEmpty(t)

SpecShared == Init /\ [][NextShared]_vars

\* One call chain that may switch to terminate mode (no.traceback()) at any
\* point between two calls.
NextTerminate ==
    \E t \in Chain :
        \/ \E r \in TerminateRegistrations : LikeyAcquire(t, r)
        \/ LikeyCheck(t)
        \/ LikeyWrite(t)
        \/ Traceback(t)
        \/ LeaveExcept(t)
        \/ \E kw \in Keywords : CallEmpty(t, kw.complaint, kw.soften)
        \/ \E l \in CodeLists, kw \in Keywords :
               CallList(t, l, kw.complaint, kw.soften)
        \/ \E c \in Codes, cp \in Complaints, s \in BOOLEAN :
               CallSingle(t, c, cp, s)
        \/ \E c \in Codes, m \in Messages, s \in BOOLEAN :
               CallMessage(t, c, m, s)
        \/ \E c \in Codes, x \in ExtFailures, kw \in Keywords :
               CallLink(t, c, x, kw.complaint, kw.soften)
        \/ PendingCheck(t)
        \/ MakeOne(t)
        \/ FinishSoftOrRaise(t)
        \/ FinishEmpty(t)
        \/ FinishList(t)

SpecTerminate == Init /\ [][NextTerminate]_vars

\* One call chain that constructs ErrorStates with linked causes: the
\* Builder, and the code+failure shape of the dispatcher.
NextBuild ==
    \E t \in Chain :
        \/ LeaveExcept(t)
        \/ BuilderNew(t)
        \/ \E c \in Codes, cp \in BuildComplaints : BuilderWithCode(t, c, cp)
        \/ \E x \in BuildFailures : BuilderWithLinked(t, x)
        \/ \E c \in Codes : BuilderAsSoft(t, c)
        \/ BuilderBuild(t)
        \/ \E c \in Codes, x \in BuildFailures, kw \in Keywords :
               CallLink(t, c, x, kw.complaint, kw.soften)
        \/ MakeOne(t)
        \/ FinishSoftOrRaise(t)

SpecBuild == InitBuild /\ [][NextBuild]_vars

\* One call chain that catches domain errors and calls the ErrorState it
\* caught: its methods addCode and addMessage, and the instance itself.
NextInstance ==
    \E t \in Chain :
        \/ \E r \in InstanceRegistrations : LikeyAcquire(t, r)
        \/ LikeyCheck(t)
        \/ LikeyWrite(t)
        \/ Dice(t)
        \/ LeaveExcept(t)
        \/ CallEmpty(t, None, FALSE)
        \/ \E c \in Codes : CallSingle(t, c, None, FALSE)
        \/ PendingCheck(t)
        \/ MakeOne(t)
        \/ FinishSoftOrRaise(t)
        \/ FinishEmpty(t)
        \/ \E c \in Codes, m \in Complaints : StateAddCode(t, c, m)
        \/ \E c \in Codes, m \in Complaints : StateAddMessage(t, c, m)
        \/ \E c \in Codes, kw \in Keywords :
               InstSingle(t, c, kw.complaint, kw.soften)
        \/ \E c \in Codes, m \in Messages, s \in BOOLEAN :
               InstMessage(t, c, m, s)

SpecInstance == InitInstance /\ [][NextInstance]_vars

\* One call chain that makes single-code calls, directly and as the
\* function guarded by no.go.
NextGo ==
    \E t \in Chain :
        \/ \E r \in TerminateRegistrations : LikeyAcquire(t, r)
        \/ LikeyCheck(t)
        \/ LikeyWrite(t)
        \/ Dice(t)
        \/ LeaveExcept(t)
        \/ \E c \in Codes, cp \in Complaints, s \in BOOLEAN :
               CallSingle(t, c, cp, s)
        \/ \E c \in Codes, s \in BOOLEAN : GoDomainError(t, c, s)
        \/ PendingCheck(t)
        \/ MakeOne(t)
        \/ FinishSoftOrRaise(t)

SpecGo == Init /\ [][NextGo]_vars

\* Two threads making calls of every shape, in module mode, on the
\* exception they caught and through no.go, and clearing the store.
NextChains ==
    \E t \in Threads :
        \/ Dice(t)
        \/ LeaveExcept(t)
        \/ CallEmpty(t, None, FALSE)
        \/ CallList(t, <<2>>, None, TRUE)
        \/ \E x \in ExtFailures : CallRaw(t, x, None, FALSE)
        \/ \E c \in CodesOf(t), kw \in Keywords :
               CallSingle(t, c, kw.complaint, kw.soften)
        \/ \E c \in CodesOf(t), s \in BOOLEAN : CallMessage(t, c, "extra", s)
        \/ \E c \in CodesOf(t), kw \in Keywords :
               CallLink(t, c, [type |-> "ValueError", msg |-> "bad", loc |-> 1],
                        kw.complaint, kw.soften)
        \/ CallUsage(t, None, FALSE)
        \/ \E c \in CodesOf(t), s \in BOOLEAN : GoDomainError(t, c, s)
        \/ \E c \in CodesOf(t), kw \in Keywords :
               InstSingle(t, c, kw.complaint, kw.soften)
        \/ \E c \in CodesOf(t), s \in BOOLEAN : InstMessage(t, c, "extra", s)
        \/ PendingCheck(t)
        \/ MakeOne(t)
        \/ FinishSoftOrRaise(t)
        \/ FinishEmpty(t)
        \/ FinishList(t)

SpecChains == InitChains /\ [][NextChains]_vars

\* ------------------------------------------------------------------------
\* Claims
\* ------------------------------------------------------------------------

\* The pending state of thread t (a heap object); only used when one exists.
PendingObj(t) == heap[getPending(t)]

\* Thread t has completed the call its frame describes.
Done(t, ops) == pc[t] = "idle" /\ frame[t].op \in ops

C2_Isolation ==
    \A t \in Threads :
        getPending(t) /= NoRef
            => /\ MKeySet(PendingObj(t).nos) \subseteq CodesOf(t)
               /\ MKeySet(PendingObj(t).softCodes) \subseteq CodesOf(t)
               /\ \A u \in Threads \ {t} : getPending(u) /= getPending(t)

\* C2 witness: both threads hold a pending state, each with its own code.
C2_Witness ==
    /\ \A t \in Threads : pc[t] = "idle" /\ tlPending[t] \in Refs
    /\ MKeys(PendingObj("t1").nos) = <<1>>
    /\ MKeys(PendingObj("t2").nos) = <<2>>

\* C3 (as stated): a module-mode call no(code, failure) made while a state
\* is pending returns without raising and leaves that state pending, with
\* the code and the linked cause merged into it.
C3_LinkMergesIntoPending ==
    \A t \in Threads :
        (Done(t, {"link"}) /\ frame[t].prePending /= NoRef)
            => /\ last[t].kind = "returned"
               /\ getPending(t) = frame[t].prePending
               /\ MHas(PendingObj(t).nos, frame[t].code)
               /\ MHas(PendingObj(t).linked,
                       <<frame[t].exception[1].type, frame[t].exception[1].msg>>)

\* C4: a single-code or code+message call made while a state is pending
\* returns normally, leaves that same state pending, and the state then
\* holds the code, with the looked-up soft flag as its soft-flag entry.
C4_PendingMerge ==
    \A t \in Threads :
        (Done(t, {"single", "message"}) /\ frame[t].prePending /= NoRef)
            => /\ last[t].kind = "returned"
               /\ getPending(t) = frame[t].prePending
               /\ tlPending[t] = frame[t].prePending
               /\ MHas(PendingObj(t).nos, frame[t].code)
               /\ MHas(PendingObj(t).softCodes, frame[t].code)
               /\ MGet(PendingObj(t).softCodes, frame[t].code) = frame[t].softFlag
               /\ frame[t].softFlag = getRegistryEntry(frame[t].code)[1]

\* C4 witness: a registered hard code was merged by a code+message call
\* without soften.
C4_Witness ==
    /\ Done("t1", {"message"})
    /\ frame["t1"].prePending /= NoRef
    /\ registry[frame["t1"].code] /= <<>>
    /\ ~frame["t1"].softFlag
    /\ ~frame["t1"].soften
    /\ last["t1"].kind = "returned"

\* C5: raise-or-stash.  A module-mode single-code or code+message call made
\* with no state pending stores its ErrorState in the caller's thread-local
\* slot and returns when the code is registered soft or soften is passed
\* (the shared slot stays empty); otherwise it raises the ErrorState and
\* the pending store stays empty.
C5_RaiseOrStash ==
    \A t \in Threads :
        (Done(t, {"single", "message"}) /\ frame[t].prePending = NoRef)
            => LET c == frame[t].code
                   soft == registry[c] /= <<>> /\ registry[c][4]
               IN  IF soft \/ frame[t].soften
                   THEN /\ last[t].kind = "returned"
                        /\ tlPending[t] \in Refs
                        /\ bueno(t)
                        /\ shared = NoRef
                        /\ MKeys(PendingObj(t).nos)[1] = c
                   ELSE /\ last[t].kind = "raised"
                        /\ last[t].ref \in Refs
                        /\ MKeys(heap[last[t].ref].nos)[1] = c
                        /\ ~bueno(t)

\* C5 witness: an unregistered code was stashed because soften was passed.
C5_Witness ==
    /\ Done("t1", {"single"})
    /\ frame["t1"].prePending = NoRef
    /\ registry[frame["t1"].code] = <<>>
    /\ frame["t1"].soften
    /\ bueno("t1")

\* The codes of the ErrorState a module-mode empty call builds: 0, then the
\* codes linked to 0's registration.
EmptyCallCodes ==
    <<0>> \o (IF registry[0] = <<>> THEN <<>> ELSE registry[0][3])

\* C6 (as stated): an empty call never returns normally; with a state
\* pending it raises that state and leaves it pending; with none it raises
\* a fresh ErrorState whose only code is 0 and the store stays empty.
C6_EmptyCallOnlyCodeZero ==
    \A t \in Threads :
        Done(t, {"empty"})
            => /\ last[t].kind = "raised"
               /\ getPending(t) = frame[t].prePending
               /\ IF frame[t].prePending /= NoRef
                  THEN last[t].ref = frame[t].prePending
                  ELSE /\ last[t].ref \in Refs
                       /\ MKeys(heap[last[t].ref].nos) = <<0>>
                       /\ ~bueno(t)

\* C6 (amended): as stated, but the fresh ErrorState holds code 0 first and
\* after it the auto-linked codes of code 0's registration, if 0 has one.
C6_EmptyCall ==
    \A t \in Threads :
        Done(t, {"empty"})
            => /\ last[t].kind = "raised"
               /\ getPending(t) = frame[t].prePending
               /\ IF frame[t].prePending /= NoRef
                  THEN last[t].ref = frame[t].prePending
                  ELSE /\ last[t].ref \in Refs
                       /\ MKeys(heap[last[t].ref].nos) = EmptyCallCodes
                       /\ ~bueno(t)

\* C6 witness: an empty call with soften and no state pending raised the
\* state of code 0, registered soft with a linked code.
C6_Witness ==
    /\ Done("t1", {"empty"})
    /\ frame["t1"].prePending = NoRef
    /\ frame["t1"].soften
    /\ registry[0] /= <<>>
    /\ last["t1"].kind = "raised"
    /\ MKeys(heap[last["t1"].ref].nos) = <<0, 2>>

\* C7: registry write-once.  An entry once stored is never replaced; every
\* stored entry is whole, the entry of one of the competing registrations;
\* every likey call returns normally, with its code registered.
C7_WriteOnce ==
    /\ [][\A c \in AllCodes :
            registry[c] /= <<>> => registry'[c] = registry[c]]_vars
    /\ [](\A c \in AllCodes :
            registry[c] /= <<>> =>
                \E r \in RegistryRegistrations :
                    r.code = c /\ registry[c] = registry_entry(r))
    /\ [](\A t \in Threads :
            Done(t, {"likey"}) =>
                /\ last[t].kind = "returned"
                /\ registry[frame[t].code] /= <<>>)

\* C7 witness: both threads have registered code 1 with different values;
\* the entry stored is t2's and t1's call was the silent no-op.
C7_Witness ==
    /\ Done("t1", {"likey"}) /\ Done("t2", {"likey"})
    /\ frame["t1"].code = 1 /\ frame["t2"].code = 1
    /\ frame["t1"].entry /= frame["t2"].entry
    /\ registry[1] = frame["t2"].entry
    /\ last["t1"].kind = "returned"

\* Thread t holds a call-scope pending state while the shared slot holds
\* another state.
BothSlots(t) ==
    /\ tlPending[t] \in Refs
    /\ shared \in Refs
    /\ shared /= tlPending[t]

\* C8: precedence.  With a call-scope state P and another state S in the
\* shared slot, the dispatcher's lookup and the inspection properties give
\* P, and a merging call adds its code to P and leaves S and both slots as
\* they were.
C8_CallScopeWins ==
    /\ [](\A t \in Threads :
            BothSlots(t) =>
                /\ getPending(t) = tlPending[t]
                /\ nos(t) = heap[tlPending[t]].nos
                /\ complaints(t) = complaintsOf(heap[tlPending[t]]))
    /\ [][\A t \in Threads :
            (BothSlots(t) /\ pc[t] = "pending" /\ pc'[t] /= "pending") =>
                /\ pc'[t] = "idle"
                /\ tlPending'[t] = tlPending[t]
                /\ shared' = shared
                /\ heap'[shared] = heap[shared]
                /\ MHas(heap'[tlPending[t]].nos, frame[t].code)]_vars

\* C8 witness: code 2 was merged into the call-scope state while the shared
\* slot holds a state of code 1 only.
C8_Witness ==
    /\ Done("t1", {"single", "message"})
    /\ BothSlots("t1")
    /\ frame["t1"].prePending = tlPending["t1"]
    /\ frame["t1"].code = 2
    /\ MKeys(heap[shared].nos) = <<1>>
    /\ MHas(heap[tlPending["t1"]].nos, 2)

ListStep(t) ==
    /\ frame'[t].op = "list"
    /\ pc[t] /= "idle" \/ calls' /= calls

\* C10: a code-list call of k >= 1 codes raises a group of exactly k
\* ErrorStates in list order, the i-th with the i-th code as its first
\* code, whatever the soft flags, soften and the pending state are; no step
\* of the call changes the thread-local slots, the shared slot or the
\* pending state.
C10_CodeList ==
    /\ [](\A t \in Threads :
            Done(t, {"list"}) =>
                /\ last[t].kind = "group"
                /\ Len(last[t].group) = Len(frame[t].codes)
                /\ \A i \in 1 .. Len(frame[t].codes) :
                       MKeys(last[t].group[i].nos)[1] = frame[t].codes[i]
                /\ getPending(t) = frame[t].prePending)
    /\ [][\A t \in Threads :
            ListStep(t) =>
                /\ tlPending' = tlPending
                /\ shared' = shared
                /\ getPending(t) /= NoRef =>
                       heap'[getPending(t)] = heap[getPending(t)]]_vars

\* C10 witness: a list of three codes, the first of them registered soft,
\* was called with soften while a state was pending.
C10_Witness ==
    /\ Done("t1", {"list"})
    /\ frame["t1"].codes = <<1, 2, 1>>
    /\ frame["t1"].soften
    /\ frame["t1"].prePending /= NoRef
    /\ registry[1] /= <<>> /\ registry[1][4]
    /\ Len(last["t1"].group) = 3

\* The shapes of a dispatcher call that can hand a domain error or an
\* aggregate to the caller.
RaisingShapes == {"empty", "list", "single", "message", "link"}

\* C11 (as stated): once traceback() has been called, no call of the empty,
\* code-list, single-code, code+message or code+failure shape hands a
\* domain error or an aggregate of domain errors to its caller.
C11_TerminateMode ==
    \A t \in Threads :
        (hideTraceback /\ frame[t].op \in RaisingShapes)
            => last[t].kind \notin {"raised", "group"}

\* Thread t has completed a call no(c) without keywords, made while no state
\* was pending.
PlainSingle(t) ==
    /\ Done(t, {"single"})
    /\ frame[t].prePending = NoRef
    /\ frame[t].complaint = None
    /\ ~frame[t].soften

\* The codeMessages mapping {c: [m]}.
OnlyCode(c, m) == <<[k |-> c, v |-> <<m>>]>>

\* A step of thread t inside a single-code call, its first step included.
SingleStep(t) ==
    /\ frame'[t].op = "single"
    /\ pc[t] /= "idle" \/ calls' /= calls

\* C12: a call no(c) of an unregistered code c with no state pending ends
\* with the domain error raised, not stashed and not with another failure;
\* the raised ErrorState has codeMessages exactly {c: ["Error c"]}; no step
\* of the call changes the registry, which still has no entry for c.
C12_UnregisteredCode ==
    /\ [](\A t \in Threads :
            (PlainSingle(t) /\ registry[frame[t].code] = <<>>) =>
                /\ last[t].kind = "raised"
                /\ last[t].ref \in Refs
                /\ heap[last[t].ref].nos =
                       OnlyCode(frame[t].code, ErrorMsg(frame[t].code))
                /\ getPending(t) = NoRef)
    /\ [][\A t \in Threads : SingleStep(t) => registry' = registry]_vars

\* C12 witness: no(2) was raised with code 2 unregistered, code 1 being
\* registered.
C12_Witness ==
    /\ PlainSingle("t1")
    /\ frame["t1"].code = 2
    /\ registry[2] = <<>>
    /\ registry[1] /= <<>>
    /\ last["t1"].kind = "raised"
    /\ nos("t1") = OnlyCode(2, "Error 2")

\* C13: with c registered hard with default message m and without linked
\* codes, a call no(c) made with no state pending (and not in terminate
\* mode) raises a domain error whose codes are exactly {c: [m]}, which is
\* what the caller's except block reads as no.nos, and no state is pending
\* afterwards.
C13_RegisteredHardCode ==
    \A t \in Threads :
        LET c == frame[t].code
        IN  (/\ PlainSingle(t)
             /\ ~hideTraceback
             /\ registry[c] /= <<>>
             /\ ~registry[c][4]
             /\ registry[c][3] = <<>>)
                => /\ last[t].kind = "raised"
                   /\ last[t].ref \in Refs
                   /\ heap[last[t].ref].nos = OnlyCode(c, registry[c][2])
                   /\ held[t] = last[t].ref =>
                          nos(t) = OnlyCode(c, registry[c][2])
                   /\ ~bueno(t)
                   /\ getPending(t) = NoRef

\* C13 witness: no(2) was raised with code 2 registered hard with the
\* message "boom", and the except block reads {2: ["boom"]}.
C13_Witness ==
    /\ PlainSingle("t1")
    /\ frame["t1"].code = 2
    /\ registry[2] /= <<>>
    /\ registry[2][2] = "boom"
    /\ held["t1"] = last["t1"].ref
    /\ nos("t1") = OnlyCode(2, "boom")

\* The step of thread t that is a whole call of shape op (the shapes that
\* take one step).
WholeCall(t, op) == frame'[t].op = op /\ calls' /= calls

\* The registry and both pending slots are left as they were, and so is the
\* state thread t has pending, if it has one.
StoresUntouched(t) ==
    /\ registry' = registry
    /\ tlPending' = tlPending
    /\ shared' = shared
    /\ getPending(t) /= NoRef => heap'[getPending(t)] = heap[getPending(t)]

\* C14: a call whose arguments match no shape raises a usage error
\* (TypeError) at once, with soften and with a state pending as well, and
\* leaves the registry, the call-scope slot and the shared slot unchanged.
C14_UsageError ==
    /\ [](\A t \in Threads :
            Done(t, {"usage"}) =>
                /\ last[t].kind = "TypeError"
                /\ getPending(t) = frame[t].prePending)
    /\ [][\A t \in Threads :
            WholeCall(t, "usage") => StoresUntouched(t)]_vars

\* C14 witness: a malformed call with soften = True, made while a state was
\* pending, ended with the usage error.
C14_Witness ==
    /\ Done("t1", {"usage"})
    /\ frame["t1"].soften
    /\ frame["t1"].prePending /= NoRef
    /\ last["t1"].kind = "TypeError"

\* C20: a call whose single argument is an already-thrown failure returns
\* normally, whatever soften is and whether or not a state is pending, and
\* leaves the registry, the call-scope slot and the shared slot unchanged.
C20_RawFailure ==
    /\ [](\A t \in Threads :
            Done(t, {"raw"}) =>
                /\ last[t].kind = "returned"
                /\ getPending(t) = frame[t].prePending)
    /\ [][\A t \in Threads :
            WholeCall(t, "raw") => StoresUntouched(t)]_vars

\* C20 witness: no(failure, soften=True) returned while a state was pending.
C20_Witness ==
    /\ Done("t1", {"raw"})
    /\ frame["t1"].soften
    /\ frame["t1"].prePending /= NoRef
    /\ getPending("t1") = frame["t1"].prePending
    /\ last["t1"].kind = "returned"

\* The (type, message) pair of a failure.
KeyOf(f) == <<f.type, f.msg>>

\* The ErrorState the completed call of thread t produced: the one it
\* raised, or else the one it stashed.
Produced(t) == IF last[t].kind = "raised" THEN last[t].ref ELSE tlPending[t]

DefaultMessages(c) ==
    {ErrorMsg(c)} \cup
    { OrElse(r.msg, ErrorMsg(c)) : r \in { x \in AccumRegistrations : x.code = c } }

\* C16 (as stated): in every ErrorState a chain of dispatcher calls can
\* reach, every code of codeMessages has a non-empty message list whose
\* first element is a default message of that code.
C16_DefaultMessageFirst ==
    \A r \in Live :
        \A i \in 1 .. Len(heap[r].nos) :
            /\ heap[r].nos[i].v /= <<>>
            /\ heap[r].nos[i].v[1] \in DefaultMessages(heap[r].nos[i].k)

\* C17 (as stated): after a call has merged into a pending state, the text
\* str() gives for that state has a header of all its current codes in
\* insertion order and one line per current message.
C17_RenderingCurrent ==
    \A t \in Threads :
        (Done(t, {"single", "message"}) /\ frame[t].prePending /= NoRef
            /\ getPending(t) /= NoRef)
            => str(PendingObj(t)) = composeText(PendingObj(t).nos)

\* C18 (as stated): an ErrorState the Builder returns holds every message
\* given to withCode exactly once, per code in insertion order, and renders
\* as the header of its codes followed by exactly those messages.
C18_BuilderRoundTrip ==
    \A t \in Threads :
        (Done(t, {"build"}) /\ last[t].kind = "returned")
            => /\ heap[last[t].ref].nos = frame[t].builder.codes
               /\ str(heap[last[t].ref]) = composeText(frame[t].builder.codes)

\* C19: build() ends with ValueError when withCode was never called, also
\* after withLinked or asSoft; otherwise it returns an ErrorState whose
\* first code is the first code given to withCode, whose linked-cause
\* mapping has an entry for every cause given to withLinked, and whose
\* soft-flag map equals the builder's soft-override map.
C19_Build ==
    \A t \in Threads :
        Done(t, {"build"})
            => LET b == frame[t].builder
               IN  IF b.codes = <<>>
                   THEN last[t].kind = "ValueError"
                   ELSE /\ last[t].kind = "returned"
                        /\ last[t].ref \in Refs
                        /\ MKeys(heap[last[t].ref].nos)[1] = b.codes[1].k
                        /\ \A i \in 1 .. Len(b.linked) :
                               MHas(heap[last[t].ref].linked, KeyOf(b.linked[i]))
                        /\ heap[last[t].ref].softCodes = b.soft_codes

\* C19 witness: a builder with two codes, a soft override and a linked
\* cause was built.
C19_Witness ==
    /\ Done("t1", {"build"})
    /\ last["t1"].kind = "returned"
    /\ MKeys(frame["t1"].builder.codes) = <<2, 1>>
    /\ frame["t1"].builder.soft_codes /= <<>>
    /\ frame["t1"].builder.linked /= <<>>
    /\ MKeys(heap[last["t1"].ref].nos) = <<2, 1>>

\* a is an initial part of b.
IsPrefix(a, b) == Len(a) <= Len(b) /\ SubSeq(b, 1, Len(a)) = a

\* Every code of codeMessages mapping m is in mapping n, with at least the
\* messages it has in m, in the same order.
Keeps(m, n) ==
    \A i \in 1 .. Len(m) :
        /\ MHas(n, m[i].k)
        /\ IsPrefix(m[i].v, MGet(n, m[i].k))

\* C21 (as stated): in one call chain, a step that is not part of dice()
\* leaves a state pending when one was pending, and every code of the state
\* pending before the step is in the state pending after it, with all the
\* messages it had.
C21_PendingMonotonic ==
    [][\A t \in Chain :
         (getPending(t) /= NoRef /\ frame'[t].op /= "dice")
            => /\ getPending(t)' /= NoRef
               /\ Keeps(heap[getPending(t)].nos,
                        heap'[getPending(t)'].nos)]_vars

\* A step that is a call of e.addMessage by thread t.
AddMessageStep(t) == frame'[t].op = "addMessage" /\ calls' /= calls

\* C22 (as stated): addMessage(code, complaint) with a non-empty complaint
\* appends the complaint to the code's list, creating the list when the code
\* has none, and leaves every other code with the list it had; with an
\* absent or empty complaint it changes nothing.
C22_AddMessageAppends ==
    [][\A t \in Chain :
         AddMessageStep(t) =>
            LET o == heap[held[t]]
                n == heap'[held[t]]
                c == frame'[t].code
                m == frame'[t].complaint
            IN  IF Truthy(m)
                THEN /\ MHas(n.nos, c)
                     /\ MGet(n.nos, c) = Append(MGetOr(o.nos, c, <<>>), m)
                     /\ \A i \in 1 .. Len(o.nos) :
                           o.nos[i].k /= c =>
                              /\ MHas(n.nos, o.nos[i].k)
                              /\ MGet(n.nos, o.nos[i].k) = o.nos[i].v
                ELSE n = o]_vars

\* C23 (as stated): after an instance-mode call e(code, ...) made with no
\* state pending that takes the soft path, the state pending is e itself,
\* and it has the code.
C23_InstanceStashesItself ==
    \A t \in Chain :
        ( /\ Done(t, {"inst_single", "inst_message"})
          /\ frame[t].prePending = NoRef
          /\ last[t].kind = "returned" )
            => /\ getPending(t) = frame[t].exc
               /\ MHas(PendingObj(t).nos, frame[t].code)

\* C24 (as stated): after no.go(b, fn) has caught a domain error E raised
\* by fn, with no state pending, the error the call raises or stashes is E,
\* and E has code b.
C24_GoPropagates ==
    \A t \in Chain :
        ( /\ Done(t, {"single"})
          /\ frame[t].caught /= NoRef
          /\ frame[t].prePending = NoRef )
            => /\ Produced(t) = frame[t].caught
               /\ MHas(heap[frame[t].caught].nos, frame[t].code)

\* C25 (as stated): the text str() gives for an ErrorState that a caller
\* holds (raised to it, returned to it or pending for it) and that has at
\* least one linked cause ends with a linked: section, the line "linked:" followed
\* by one line per (type, message) cause with its locations sorted.
C25_LinkedRendered ==
    \A t \in Threads :
        pc[t] = "idle" =>
            \A r \in {last[t].ref, tlPending[t], held[t]} \cap Refs :
                heap[r].linked /= <<>> =>
                    LET lines == Tail(str(heap[r]))
                        n     == Len(heap[r].linked)
                    IN  /\ Len(lines) > n
                        /\ lines[Len(lines) - n] = "linked:"
                        /\ \A i \in 1 .. n :
                              lines[Len(lines) - n + i] =
                                 linkedLine(heap[r].linked[i])

\* A step in which thread t ends a call of the single-code, code+message
\* or code+failure shape that has constructed a new ErrorState.
FreshFinish(t) ==
    /\ pc[t] = "made"
    /\ pc'[t] /= "made"
    /\ frame[t].op \in {"single", "message", "link"}

\* C26: a module-mode call that constructs a new ErrorState for a code c
\* registered with linked codes a1..an produces an ErrorState whose codes,
\* in insertion order, are c and then a1..an; every linked code has its own
\* default message (the registered one, or "Error ai") as its one message
\* and its own registered soft flag; the call returns, with the new state
\* pending, exactly when c is registered soft or soften was passed, and
\* raises it otherwise, whatever the soft flags of a1..an.
C26_AutoLinked ==
    [][\A t \in Chain :
         FreshFinish(t) =>
            LET c == frame[t].code
                e == RegistryGet(c, <<"NoBaseException", ErrorMsg(c), <<>>, FALSE>>)
                a == e[3]
                P == heap'[Produced(t)']
            IN  /\ Produced(t)' = frame[t].exc
                /\ MKeys(P.nos) = <<c>> \o a
                /\ \A i \in 1 .. Len(a) :
                      /\ MGet(P.nos, a[i]) = <<getRegistryEntry(a[i])[2]>>
                      /\ MGet(P.softCodes, a[i]) = getRegistryEntry(a[i])[1]
                /\ (last'[t].kind = "returned") <=> (e[4] \/ frame[t].soften)
                /\ (last'[t].kind = "raised") <=> ~(e[4] \/ frame[t].soften)]_vars

\* A hard code with a soft linked code has been raised: the state has both
\* codes, the linked code with its own soft flag.
C26_Witness ==
    \E t \in Chain :
        /\ Done(t, {"single", "message", "link"})
        /\ last[t].kind = "raised"
        /\ ~frame[t].soften
        /\ MKeys(heap[last[t].ref].nos) = <<2, 1>>
        /\ MGet(heap[last[t].ref].softCodes, 1)
        /\ ~MGet(heap[last[t].ref].softCodes, 2)

\* C27 (as stated): whatever registrations other threads make meanwhile,
\* the ErrorState a call no(c) without soften constructs, with no state
\* pending, is stashed exactly when its own soft flag for c is true, and is
\* never raised with a true soft flag for c.
C27_SingleSnapshot ==
    \A t \in Threads :
        ( /\ Done(t, {"single"})
          /\ frame[t].prePending = NoRef
          /\ ~frame[t].soften
          /\ last[t].kind \in {"returned", "raised"} )
            => LET flag == MGet(heap[Produced(t)].softCodes, frame[t].code)
               IN  /\ (last[t].kind = "returned") <=> flag
                   /\ last[t].kind = "raised" => ~flag

\* Thread u takes no part in the step.
Idle(u) ==
    /\ pc'[u] = pc[u]
    /\ frame'[u] = frame[u]
    /\ last'[u] = last[u]
    /\ held'[u] = held[u]

\* C28: the library never fills the shared slot.  Whatever calls of any
\* shape two threads make, in module mode, on a caught ErrorState or through
\* no.go, and whatever they clear, the shared slot is empty, bueno of a
\* thread is true exactly when its own thread-local slot holds a state, and
\* a step of one thread leaves bueno of the other as it was.
C28_SharedNeverWritten ==
    /\ [](shared = NoRef)
    /\ [](\A t \in Threads : bueno(t) <=> tlPending[t] \in Refs)
    /\ [][\A u \in Threads : Idle(u) => (bueno(u)' <=> bueno(u))]_vars

\* C28 witness: thread t1 has stashed a state, thread t2 has completed a
\* call that raised, and bueno is true for t1 and false for t2.
C28_Witness ==
    /\ Done("t1", {"single", "message", "link", "inst_single", "inst_message"})
    /\ last["t1"].kind = "returned"
    /\ bueno("t1")
    /\ Done("t2", {"single", "message", "link", "empty"})
    /\ last["t2"].kind = "raised"
    /\ ~bueno("t2")

\* A step that is a call of no.dice() by thread t.
DiceStep(t) ==
    /\ frame'[t].op = "dice"
    /\ \/ frame'[t] /= frame[t]
       \/ last'[t] /= last[t]
       \/ tlPending'[t] /= tlPending[t]

\* C29: no.dice() called by one thread empties the shared slot and that
\* thread's own slot, so that bueno is false for it; every other thread
\* keeps its thread-local slot, the pending state in it with its codes,
\* messages and soft flags, and its value of bueno.
C29_DiceOwnSlotOnly ==
    [][\A t \in Threads :
         DiceStep(t) =>
            /\ shared' = NoRef
            /\ ThreadPending(t)' = NoRef
            /\ ~bueno(t)'
            /\ \A u \in Threads \ {t} :
                  /\ tlPending'[u] = tlPending[u]
                  /\ tlPending[u] \in Refs =>
                        heap'[tlPending[u]] = heap[tlPending[u]]
                  /\ bueno(u)' <=> bueno(u)]_vars

\* C29 witness: thread t1 has cleared its own pending state while thread
\* t2 has one, which is still there.
C29_Witness ==
    /\ Done("t1", {"dice"})
    /\ frame["t1"].prePending /= NoRef
    /\ ~bueno("t1")
    /\ tlPending["t2"] \in Refs
    /\ bueno("t2")
    /\ MHas(heap[tlPending["t2"]].nos, 2)

====
